---- MODULE Spec2Model ----
(***************************************************************************)
(* Model of the gplus-auth authentication gateway.                         *)
(*                                                                         *)
(*   src/login.go   the OAuth flow orchestrator (beginAuthHandler,         *)
(*                  getAuthURL, completeUserAuth, validateState, logout)   *)
(*                  and the session adapter (storeInSession,               *)
(*                  getFromSession, gzip framing)                          *)
(*   src/README.md  the access policy and HTTP gateway of package auth     *)
(*                  (Provider.GetRouter, GetAccess, getAccessByEmail,      *)
(*                  CheckAccess, GuardAccess, gateway)                     *)
(*                                                                         *)
(* One browser session is modelled; a request handler is one atomic step   *)
(* of Spec.  The goth provider, the scs session store and the network are  *)
(* the environment: every call into them that can fail in the code fails   *)
(* or succeeds nondeterministically (the record "env" of an action).       *)
(* Reads of the session are assumed to load; a missing key reads as the    *)
(* zero value, as scs does.                                                *)
(***************************************************************************)
EXTENDS Integers, Sequences, FiniteSets, TLC

VARIABLES
    UserList,     \* Provider.UserList: static sequence of UserInfo records
    session,      \* data of the browser session held by the scs store
    gothicRand,   \* state of the process-wide generator
    last,         \* the request served last, its response and the calls it made
    pc,           \* SpecRand: position of each concurrent setState call
    tmp,          \* SpecRand: generator state a call has read
    nonceBytes    \* SpecRand: bytes produced so far by each call

vars == <<UserList, session, gothicRand, last, pc, tmp, nonceBytes>>

----------------------------------------------------------------------------
(* Bounds of the model *)

MaxUsers == 2       \* longest configured user list
NonceLen == 2       \* bytes per generated nonce (64 in the source)
RandPeriod == 2     \* number of distinct generator states
NumCallers == 2     \* SpecRand: concurrently served requests
MaxPayload == 2     \* SpecAdapter: longest payload handed to storeInSession

----------------------------------------------------------------------------
(* Values *)

NoneAccess == 0
AdminAccess == 1
AccessTypes == {NoneAccess, AdminAccess}

StatusUnwritten == 0
StatusTemporaryRedirect == 307
StatusBadRequest == 400

ByteRange == 256

DeniedPage == "/auth-denied"
SuccessPage == "/"

\* goth registry: gplus embeds the state in its authorization URL (OAuth2),
\* an OAuth1 provider such as twitter has no state parameter
Providers == {"gplus", "twitter"}
EmbedsState(p) == p = "gplus"

\* values of the {provider} path parameter: absent, registered, unregistered
PathProviders == {"", "gplus", "twitter", "email"}

ListEmails == {"", "a@x"}
ProfileEmails == {"", "a@x", "b@x"}

RECURSIVE SeqsUpTo(_, _)
SeqsUpTo(S, n) ==
    IF n = 0 THEN {<<>>}
    ELSE LET shorter == SeqsUpTo(S, n - 1)
         IN shorter \cup {Append(s, x) : s \in {t \in shorter : Len(t) = n - 1}, x \in S}

UserInfo == [Email : ListEmails, Access : AccessTypes]
UserLists == SeqsUpTo(UserInfo, MaxUsers)

\* the configurations of Spec: an admin, and a record with an empty email
\* ahead of a duplicated email
DeployedLists ==
    {<<[Email |-> "a@x", Access |-> AdminAccess]>>,
     <<[Email |-> "", Access |-> AdminAccess], [Email |-> "a@x", Access |-> NoneAccess],
       [Email |-> "a@x", Access |-> AdminAccess]>>}

----------------------------------------------------------------------------
(* State tokens and the nonce generator (setState, getState) *)

NoState == <<>>
CallerState == <<7>>

\* rand.Rand.Int63: the value drawn in generator state g, and the state after
Int63Value(g) == g
Int63Next(g) == (g + 1) % RandPeriod

RECURSIVE RandAfter(_, _)
RandAfter(g, n) == IF n = 0 THEN g ELSE RandAfter(Int63Next(g), n - 1)

\* nonceBytes[i] = byte(gothicRand.Int63() % 256), i = 0 .. 63
NonceBytes(g) == [i \in 1..NonceLen |-> Int63Value(RandAfter(g, i - 1)) % ByteRange]

\* base64.URLEncoding.EncodeToString: one alphabet symbol per input byte here
Base64Alphabet == 65
EncodeToString(bytes) == [i \in 1..Len(bytes) |-> Base64Alphabet + bytes[i]]

Nonces == {EncodeToString(NonceBytes(g)) : g \in 0..(RandPeriod - 1)}

\* values of the `state` query parameter of a request
QueryStates == {NoState, CallerState} \cup Nonces

setState(req, g) ==
    IF Len(req.state) > 0
    THEN [state |-> req.state, rand |-> g]
    ELSE [state |-> EncodeToString(NonceBytes(g)), rand |-> RandAfter(g, NonceLen)]

getState(req) == req.state

----------------------------------------------------------------------------
(* Session adapter: gzip framing and the scs session *)

GzipID1 == 31
GzipID2 == 139

RECURSIVE SumSeq(_)
SumSeq(s) == IF s = <<>> THEN 0 ELSE Head(s) + SumSeq(Tail(s))

Checksum(data) == SumSeq(data) % ByteRange

\* gzip.NewWriter / Write / Flush / Close: header, payload, trailer
Compress(data) == <<GzipID1, GzipID2>> \o data \o <<Checksum(data)>>

\* gzip.NewReader / ioutil.ReadAll: the payload, or an error
Decompress(bytes) ==
    IF /\ Len(bytes) >= 3
       /\ bytes[1] = GzipID1
       /\ bytes[2] = GzipID2
       /\ Checksum(SubSeq(bytes, 3, Len(bytes) - 1)) = bytes[Len(bytes)]
    THEN [value |-> SubSeq(bytes, 3, Len(bytes) - 1), err |-> ""]
    ELSE [value |-> <<>>, err |-> "gzip: invalid header"]

NoBytes == <<>>
EmptySession == [values |-> [p \in Providers |-> NoBytes], email |-> ""]

\* scs Session.GetBytes: nil for a key that does not exist
SessionGetBytes(sd, key) == IF key \in Providers THEN sd.values[key] ELSE NoBytes

\* payloads handed to the adapter, and entries the store can hold under a
\* key: nothing, a gzip stream, or bytes that are none (truncated, a wrong
\* header, a wrong trailer)
PayloadBytes == {0, 1}
Payloads == SeqsUpTo(PayloadBytes, MaxPayload)
CorruptEntries == {<<GzipID1>>, <<0, GzipID2, 0>>, <<GzipID1, GzipID2, 1, 0>>}
StoredEntries == {NoBytes} \cup CorruptEntries \cup {Compress(v) : v \in Payloads}

\* a put that keeps the value a key already holds
SessionPutBytes_KeepFirst(sd, key, bytes) ==
    IF sd.values[key] # NoBytes THEN sd ELSE [sd EXCEPT !.values[key] = bytes]

\* scs Session.PutBytes
SessionPutBytes(sd, key, bytes) == [sd EXCEPT !.values[key] = bytes]

\* scs Session.Remove: deletes whatever the key holds, the "email" key included
SessionRemove(sd, key) ==
    IF key \in Providers THEN [sd EXCEPT !.values[key] = NoBytes]
    ELSE IF key = "email" THEN [sd EXCEPT !.email = ""]
    ELSE sd

getSessionValue(sd, key) ==
    LET r == Decompress(SessionGetBytes(sd, key))
    IN IF r.err # "" THEN [value |-> <<>>, err |-> r.err] ELSE r

\* getFromSession dropping the error of getSessionValue
getFromSession_Unchecked(sd, key) ==
    [value |-> getSessionValue(sd, key).value, err |-> ""]

getFromSession(sd, key) ==
    LET r == getSessionValue(sd, key)
    IN IF r.err # ""
       THEN [value |-> <<>>, err |-> "could not find a matching session for this request"]
       ELSE [value |-> r.value, err |-> ""]

\* updateSessionValue handing the value to the store as it is
updateSessionValue_Raw(sd, key, value, putOk) ==
    IF putOk THEN [sd |-> SessionPutBytes(sd, key, value), err |-> ""]
    ELSE [sd |-> sd, err |-> "session: put failed"]

updateSessionValue(sd, key, value, putOk) ==
    IF putOk THEN [sd |-> SessionPutBytes(sd, key, Compress(value)), err |-> ""]
    ELSE [sd |-> sd, err |-> "session: put failed"]

storeInSession(sd, key, value, putOk) == updateSessionValue(sd, key, value, putOk)

----------------------------------------------------------------------------
(* goth provider sessions: the provider's side of the interface *)

Bit(b) == IF b THEN 1 ELSE 0

\* goth.Provider.BeginAuth(state): a session whose AuthURL carries the state
\* when the provider has a state parameter
BeginAuth(p, state, urlOk) ==
    [provider |-> p, hasURL |-> urlOk,
     state |-> IF EmbedsState(p) /\ urlOk THEN state ELSE NoState,
     token |-> FALSE]

\* goth.Session.GetAuthURL: the URL, or an error when none has been set
AuthURL(sess) == [host |-> sess.provider, path |-> "/auth", state |-> sess.state]
NoURL == [host |-> "", path |-> "", state |-> NoState]
LocalURL(page) == [host |-> "", path |-> page, state |-> NoState]

GetAuthURL(sess) ==
    IF sess.hasURL THEN [url |-> AuthURL(sess), err |-> ""]
    ELSE [url |-> NoURL, err |-> "an AuthURL has not been set"]

\* goth.Session.Marshal / goth.Provider.UnmarshalSession
Marshal(sess) == <<Bit(sess.hasURL), Bit(sess.token)>> \o sess.state

UnmarshalSession(p, value) ==
    IF Len(value) >= 2
    THEN [sess |-> [provider |-> p, hasURL |-> value[1] = 1,
                    state |-> SubSeq(value, 3, Len(value)), token |-> value[2] = 1],
          err |-> ""]
    ELSE [sess |-> [provider |-> p, hasURL |-> FALSE, state |-> NoState, token |-> FALSE],
          err |-> "unexpected end of JSON input"]

\* goth.Provider.FetchUser: needs an access token; fails or yields the profile
FetchUser(sess, ok, email) ==
    IF sess.token /\ ok THEN [email |-> email, err |-> ""]
    ELSE [email |-> "", err |-> "cannot get user information"]

\* goth.Session.Authorize: the token exchange; sets the access token
Authorize(sess, ok) ==
    IF ok THEN [sess |-> [sess EXCEPT !.token = TRUE], err |-> ""]
    ELSE [sess |-> sess, err |-> "token exchange failed"]

\* goth.GetProvider
GetProvider(name) ==
    IF name \in Providers THEN "" ELSE "no provider for this name exists"

----------------------------------------------------------------------------
(* OAuth flow orchestrator (src/login.go) *)

getProviderName(req) ==
    IF req.provider # "" THEN [name |-> req.provider, err |-> ""]
    ELSE [name |-> "", err |-> "you must select a provider"]

\* validateState without the comparison of the two states
validateState_Unchecked(req, sess) ==
    LET raw == GetAuthURL(sess)
    IN IF raw.err # "" THEN raw.err ELSE ""

\* validateState: "" when the request passes, the error otherwise
validateState(req, sess) ==
    LET raw == GetAuthURL(sess)
        originalState == raw.url.state
    IN IF raw.err # "" THEN raw.err
       ELSE IF originalState # NoState /\ originalState # req.state
            THEN "state token mismatch"
            ELSE ""

logout(sd, req, removeOk) ==
    LET pn == getProviderName(req)
    IN IF pn.err # ""
       THEN [sd |-> sd, err |-> "Can't detect provider", ops |-> <<>>]
       ELSE IF ~removeOk
            THEN [sd |-> sd, err |-> "Could not delete user session ", ops |-> <<"Remove">>]
            ELSE [sd |-> SessionRemove(sd, pn.name), err |-> "", ops |-> <<"Remove">>]

NoUser == ""
Failed(err, sd, ops) == [email |-> NoUser, err |-> err, sd |-> sd, ops |-> ops]

\* a refresh that exchanges and fetches once more when the second fetch failed
RefreshAndRetry_RetriesAgain(sd, req, name, sess, env, ops) ==
    LET au == Authorize(sess, env.authorizeOk)
        st == storeInSession(sd, name, Marshal(au.sess), env.putOk)
        gu == FetchUser(au.sess, env.fetch2Ok, env.email)
    IN IF au.err # "" THEN Failed(au.err, sd, ops \o <<"Authorize">>)
       ELSE IF st.err # "" THEN Failed(st.err, st.sd, ops \o <<"Authorize", "PutBytes">>)
       ELSE IF gu.err # ""
            THEN Failed(gu.err, st.sd,
                        ops \o <<"Authorize", "PutBytes", "FetchUser", "Authorize", "FetchUser">>)
       ELSE [email |-> gu.email, err |-> gu.err, sd |-> st.sd,
             ops |-> ops \o <<"Authorize", "PutBytes", "FetchUser">>]

\* the body of completeUserAuth from the second fetch back to the first
RefreshAndRetry(sd, req, name, sess, env, ops) ==
    LET au == Authorize(sess, env.authorizeOk)
        st == storeInSession(sd, name, Marshal(au.sess), env.putOk)
        gu == FetchUser(au.sess, env.fetch2Ok, env.email)
    IN IF au.err # "" THEN Failed(au.err, sd, ops \o <<"Authorize">>)
       ELSE IF st.err # "" THEN Failed(st.err, st.sd, ops \o <<"Authorize", "PutBytes">>)
       ELSE [email |-> gu.email, err |-> gu.err, sd |-> st.sd,
             ops |-> ops \o <<"Authorize", "PutBytes", "FetchUser">>]

\* the body of completeUserAuth, without the deferred logout
CompleteBody(sd, req, env) ==
    LET pn == getProviderName(req)
        got == getFromSession(sd, pn.name)
        un == UnmarshalSession(pn.name, got.value)
        vs == validateState(req, un.sess)
        user == FetchUser(un.sess, env.fetch1Ok, env.email)
    IN IF pn.err # "" THEN Failed(pn.err, sd, <<>>)
       ELSE IF GetProvider(pn.name) # ""
            THEN Failed(GetProvider(pn.name), sd, <<"GetProvider">>)
       ELSE IF got.err # "" THEN Failed(got.err, sd, <<"GetProvider", "GetBytes">>)
       ELSE IF un.err # ""
            THEN Failed(un.err, sd, <<"GetProvider", "GetBytes", "UnmarshalSession">>)
       ELSE IF vs # ""
            THEN Failed(vs, sd, <<"GetProvider", "GetBytes", "UnmarshalSession", "validateState">>)
       ELSE IF user.err = ""
            THEN [email |-> user.email, err |-> "", sd |-> sd,
                  ops |-> <<"GetProvider", "GetBytes", "UnmarshalSession", "validateState",
                            "FetchUser">>]
       ELSE RefreshAndRetry(sd, req, pn.name, un.sess, env,
                            <<"GetProvider", "GetBytes", "UnmarshalSession", "validateState",
                              "FetchUser">>)

\* completeUserAuth without the deferred logout
completeUserAuth_NoLogout(sd, req, env) ==
    LET body == CompleteBody(sd, req, env)
    IN [email |-> body.email, err |-> body.err, sd |-> body.sd, ops |-> body.ops \o <<"Remove">>,
        lerr |-> ""]

\* completeUserAuth logging out only on the way out of a completed call
completeUserAuth_LogoutOnSuccess(sd, req, env) ==
    LET body == CompleteBody(sd, req, env)
        lo == logout(body.sd, req, env.removeOk)
    IN IF body.err # ""
       THEN [email |-> body.email, err |-> body.err, sd |-> body.sd,
             ops |-> body.ops \o <<"Remove">>, lerr |-> ""]
       ELSE [email |-> body.email, err |-> "", sd |-> lo.sd, ops |-> body.ops \o lo.ops,
             lerr |-> lo.err]

\* completeUserAuth calling logout before its body instead of deferring it
completeUserAuth_LogoutFirst(sd, req, env) ==
    LET lo == logout(sd, req, env.removeOk)
        body == CompleteBody(lo.sd, req, env)
    IN [email |-> body.email, err |-> body.err, sd |-> body.sd, ops |-> lo.ops \o body.ops,
        lerr |-> lo.err]

\* completeUserAuth: `defer logout(res, req)` runs when the body returns
completeUserAuth(sd, req, env) ==
    LET body == CompleteBody(sd, req, env)
        lo == logout(body.sd, req, env.removeOk)
    IN [email |-> body.email, err |-> body.err, sd |-> lo.sd, ops |-> body.ops \o lo.ops,
        lerr |-> lo.err]

\* getAuthURL returning the URL without persisting the provider session
getAuthURL_NoStore(sd, req, g, env) ==
    LET pn == getProviderName(req)
        st == setState(req, g)
        sess == BeginAuth(pn.name, st.state, env.urlOk)
        au == GetAuthURL(sess)
        none(err, rand, ops) == [url |-> NoURL, err |-> err, sd |-> sd, rand |-> rand, ops |-> ops]
    IN IF pn.err # "" THEN none(pn.err, g, <<>>)
       ELSE IF GetProvider(pn.name) # ""
            THEN none(GetProvider(pn.name), g, <<"GetProvider">>)
       ELSE IF ~env.beginOk
            THEN none("provider: begin auth failed", st.rand, <<"GetProvider", "BeginAuth">>)
       ELSE IF au.err # ""
            THEN none(au.err, st.rand, <<"GetProvider", "BeginAuth", "GetAuthURL">>)
       ELSE [url |-> au.url, err |-> "", sd |-> sd, rand |-> st.rand,
             ops |-> <<"GetProvider", "BeginAuth", "GetAuthURL">>]

\* getAuthURL returning the URL whatever storeInSession returned
getAuthURL_IgnoresPutError(sd, req, g, env) ==
    LET pn == getProviderName(req)
        st == setState(req, g)
        sess == BeginAuth(pn.name, st.state, env.urlOk)
        au == GetAuthURL(sess)
        put == storeInSession(sd, pn.name, Marshal(sess), env.beginPutOk)
        none(err, rand, ops) == [url |-> NoURL, err |-> err, sd |-> sd, rand |-> rand, ops |-> ops]
    IN IF pn.err # "" THEN none(pn.err, g, <<>>)
       ELSE IF GetProvider(pn.name) # ""
            THEN none(GetProvider(pn.name), g, <<"GetProvider">>)
       ELSE IF ~env.beginOk
            THEN none("provider: begin auth failed", st.rand, <<"GetProvider", "BeginAuth">>)
       ELSE IF au.err # ""
            THEN none(au.err, st.rand, <<"GetProvider", "BeginAuth", "GetAuthURL">>)
       ELSE [url |-> au.url, err |-> "", sd |-> put.sd, rand |-> st.rand,
             ops |-> <<"GetProvider", "BeginAuth", "GetAuthURL", "PutBytes">>]

getAuthURL(sd, req, g, env) ==
    LET pn == getProviderName(req)
        st == setState(req, g)
        sess == BeginAuth(pn.name, st.state, env.urlOk)
        au == GetAuthURL(sess)
        put == storeInSession(sd, pn.name, Marshal(sess), env.beginPutOk)
        none(err, rand, ops) == [url |-> NoURL, err |-> err, sd |-> sd, rand |-> rand, ops |-> ops]
    IN IF pn.err # "" THEN none(pn.err, g, <<>>)
       ELSE IF GetProvider(pn.name) # ""
            THEN none(GetProvider(pn.name), g, <<"GetProvider">>)
       ELSE IF ~env.beginOk
            THEN none("provider: begin auth failed", st.rand, <<"GetProvider", "BeginAuth">>)
       ELSE IF au.err # ""
            THEN none(au.err, st.rand, <<"GetProvider", "BeginAuth", "GetAuthURL">>)
       ELSE IF put.err # ""
            THEN none(put.err, st.rand, <<"GetProvider", "BeginAuth", "GetAuthURL", "PutBytes">>)
       ELSE [url |-> au.url, err |-> "", sd |-> put.sd, rand |-> st.rand,
             ops |-> <<"GetProvider", "BeginAuth", "GetAuthURL", "PutBytes">>]

\* a response: status written, Location header, whether a body was written,
\* whether the downstream handler ran
Response(status, location, body) ==
    [status |-> status, location |-> location, body |-> body, next |-> FALSE]

\* redirect(): Location and WriteHeader(307), no body
redirect(url) == Response(StatusTemporaryRedirect, url, FALSE)

\* http.Redirect for a GET request: Location, the status and a short HTML body
HttpRedirect(url, status) == Response(status, url, TRUE)

\* beginAuthHandler returning on an error without writing a response
beginAuthHandler_Silent(sd, req, g, env) ==
    LET r == getAuthURL(sd, req, g, env)
    IN IF r.err # ""
       THEN [resp |-> Response(StatusUnwritten, NoURL, FALSE), sd |-> r.sd,
             rand |-> r.rand, ops |-> r.ops, err |-> r.err]
       ELSE [resp |-> HttpRedirect(r.url, StatusTemporaryRedirect), sd |-> r.sd,
             rand |-> r.rand, ops |-> r.ops, err |-> ""]

beginAuthHandler(sd, req, g, env) ==
    LET r == getAuthURL(sd, req, g, env)
    IN IF r.err # ""
       THEN [resp |-> Response(StatusBadRequest, NoURL, TRUE), sd |-> r.sd,
             rand |-> r.rand, ops |-> r.ops, err |-> r.err]
       ELSE [resp |-> HttpRedirect(r.url, StatusTemporaryRedirect), sd |-> r.sd,
             rand |-> r.rand, ops |-> r.ops, err |-> ""]

----------------------------------------------------------------------------
(* Access policy and post-login gateway (package auth, src/README.md) *)

RECURSIVE ScanUserList(_, _)
ScanUserList(list, email) ==
    IF list = <<>> THEN NoneAccess
    ELSE IF Head(list).Email = email THEN Head(list).Access
    ELSE ScanUserList(Tail(list), email)

getAccessByEmail(list, email) == ScanUserList(list, email)

\* Session.GetString("email"): "" for a key that does not exist
GetAccess(list, sd) ==
    IF sd.email = "" THEN NoneAccess ELSE getAccessByEmail(list, sd.email)

\* a hierarchical check: a level passes every check for a lower one
CheckAccess_Hierarchical(list, sd, types) ==
    \E i \in DOMAIN types : types[i] <= GetAccess(list, sd)

CheckAccess(list, sd, types) ==
    \E i \in DOMAIN types : types[i] = GetAccess(list, sd)

gateway(list, sd, email, putOk) ==
    LET access == getAccessByEmail(list, email)
    IN IF access = NoneAccess
       THEN [resp |-> redirect(LocalURL(DeniedPage)), sd |-> sd, ops |-> <<"gateway">>]
       ELSE IF ~putOk
            THEN [resp |-> redirect(LocalURL(DeniedPage)), sd |-> sd,
                  ops |-> <<"gateway", "PutString">>]
            ELSE [resp |-> redirect(LocalURL(SuccessPage)), sd |-> [sd EXCEPT !.email = email],
                  ops |-> <<"gateway", "PutString">>]

\* the guard without the `return` after its redirect
GuardAccess_NoReturn(list, sd, types) ==
    IF ~CheckAccess(list, sd, types)
    THEN [HttpRedirect(LocalURL(DeniedPage), StatusTemporaryRedirect) EXCEPT !.next = TRUE]
    ELSE [Response(StatusUnwritten, NoURL, FALSE) EXCEPT !.next = TRUE]

GuardAccess(list, sd, types) ==
    IF ~CheckAccess(list, sd, types)
    THEN HttpRedirect(LocalURL(DeniedPage), StatusTemporaryRedirect)
    ELSE [Response(StatusUnwritten, NoURL, FALSE) EXCEPT !.next = TRUE]

----------------------------------------------------------------------------
(* Inputs of the request handlers *)

\* a request to a provider route; the handlers read the state parameter only
\* after the provider was resolved in the registry, and a provider without a
\* state parameter tells no two non-empty values apart
Requests ==
    {r \in [provider : PathProviders, state : QueryStates] :
        /\ r.provider \notin Providers => r.state = NoState
        /\ (r.provider \in Providers /\ ~EmbedsState(r.provider))
              => r.state \in {NoState, CallerState}}
PlainRequests == [provider : PathProviders, state : {NoState}]

\* outcomes of the provider and store calls of one completeUserAuth call; a
\* call the flags make unreachable has its flag at FALSE, an unused profile
\* email is ""
CompleteEnvs ==
    {e \in [fetch1Ok : BOOLEAN, authorizeOk : BOOLEAN, putOk : BOOLEAN, fetch2Ok : BOOLEAN,
            email : ProfileEmails, removeOk : BOOLEAN] :
        /\ e.fetch1Ok => ~e.authorizeOk
        /\ e.putOk => e.authorizeOk
        /\ e.fetch2Ok => e.putOk
        /\ e.email # "" => (e.fetch1Ok \/ e.fetch2Ok)}

AllFail(removeOk) ==
    [fetch1Ok |-> FALSE, authorizeOk |-> FALSE, putOk |-> FALSE, fetch2Ok |-> FALSE,
     email |-> "", removeOk |-> removeOk]

\* the outcomes to consider in a state: those of the provider calls only
\* when the call gets as far as the first profile fetch, a successful first
\* fetch only when the stored session holds a token, and a failing Remove only
\* when the key holds something
ReachesFetch(sd, req) ==
    LET ops == CompleteBody(sd, req, AllFail(TRUE)).ops
    IN \E i \in DOMAIN ops : ops[i] = "FetchUser"

StoredToken(sd, req) ==
    UnmarshalSession(req.provider, getFromSession(sd, req.provider).value).sess.token

CompleteEnvsFor(sd, req) ==
    IF ReachesFetch(sd, req)
    THEN {e \in CompleteEnvs : e.fetch1Ok => StoredToken(sd, req)}
    ELSE {AllFail(ok) : ok \in {TRUE} \cup {SessionRemove(sd, req.provider) = sd}}

\* outcomes of the provider and store calls of getAuthURL
BeginEnvs ==
    {e \in [beginOk : BOOLEAN, urlOk : BOOLEAN, beginPutOk : BOOLEAN] :
        /\ e.urlOk => e.beginOk
        /\ e.beginPutOk => e.urlOk}

AllowedLists ==
    {<<>>, <<AdminAccess>>, <<NoneAccess>>, <<AdminAccess, NoneAccess>>,
     <<NoneAccess, AdminAccess>>}

\* the record of a served request: the request, the session data it found,
\* the response, the calls made in order, the error of completeUserAuth or
\* logout, the error of getAuthURL, the email handed to the gateway, the
\* guard's allowed levels, the error the logout deferred by completeUserAuth
\* returned (and the caller never sees), the payload handed to storeInSession
Served(route, req, before, h, allowed) ==
    [route |-> route, provider |-> req.provider, state |-> req.state, before |-> before,
     resp |-> h.resp, ops |-> h.ops, err |-> h.err, berr |-> h.berr, email |-> h.email,
     allowed |-> allowed, lerr |-> h.lerr, payload |-> h.payload]

NoRequest == [provider |-> "", state |-> NoState]

Handled(sd, rand, resp, ops, err, berr, email) ==
    [sd |-> sd, rand |-> rand, resp |-> resp, ops |-> ops, err |-> err, berr |-> berr,
     email |-> email, lerr |-> "", payload |-> <<>>]

\* a request that ran completeUserAuth, with the error of its deferred logout
AfterComplete(r, h) == [h EXCEPT !.lerr = r.lerr]

----------------------------------------------------------------------------
(* Routes of GetRouter and the guard middleware: r is what completeUserAuth *)
(* returned, g the generator state                                          *)

\* the callback route without the `return` of its error branch
callbackHandler_FallsThrough(list, r, g, putEmailOk) ==
    LET gw == gateway(list, r.sd, r.email, putEmailOk)
    IN AfterComplete(r, Handled(gw.sd, g, gw.resp, r.ops \o gw.ops, r.err, "", r.email))

callbackHandler(list, r, g, putEmailOk) ==
    IF r.err # ""
    THEN AfterComplete(r, Handled(r.sd, g, Response(StatusUnwritten, NoURL, FALSE), r.ops,
                                  r.err, "", ""))
    ELSE LET gw == gateway(list, r.sd, r.email, putEmailOk)
         IN AfterComplete(r, Handled(gw.sd, g, gw.resp, r.ops \o gw.ops, "", "", r.email))

loginHandler(list, r, req, g, putEmailOk, benv) ==
    IF r.err = ""
    THEN LET gw == gateway(list, r.sd, r.email, putEmailOk)
         IN AfterComplete(r, Handled(gw.sd, g, gw.resp, r.ops \o gw.ops, "", "", r.email))
    ELSE LET b == beginAuthHandler(r.sd, req, g, benv)
         IN AfterComplete(r, Handled(b.sd, b.rand, b.resp, r.ops \o b.ops, r.err, b.err, ""))

\* the logout route returning on a logout error instead of swallowing it
logoutHandler_StopsOnError(sd, req, g, removeOk) ==
    LET lo == logout(sd, req, removeOk)
    IN IF lo.err # ""
       THEN Handled(lo.sd, g, Response(StatusUnwritten, NoURL, FALSE), lo.ops, lo.err, "", "")
       ELSE Handled(lo.sd, g, redirect(LocalURL(SuccessPage)), lo.ops, lo.err, "", "")

logoutHandler(sd, req, g, removeOk) ==
    LET lo == logout(sd, req, removeOk)
    IN Handled(lo.sd, g, redirect(LocalURL(SuccessPage)), lo.ops, lo.err, "", "")

guardedHandler(list, sd, g, types) ==
    Handled(sd, g, GuardAccess(list, sd, types), <<>>, "", "", "")

Callers == 1..NumCallers

\* no request served yet
Unserved ==
    /\ last = Served("none", NoRequest, EmptySession,
                     Handled(EmptySession, 0, Response(StatusUnwritten, NoURL, FALSE), <<>>,
                             "", "", ""), <<>>)
    /\ pc = [c \in Callers |-> "idle"]
    /\ tmp = [c \in Callers |-> 0]
    /\ nonceBytes = [c \in Callers |-> <<>>]

Idle == gothicRand \in 0..(RandPeriod - 1) /\ Unserved

Started == session = EmptySession /\ Idle

Init == UserList \in DeployedLists /\ Started

AllBeginFail == [beginOk |-> FALSE, urlOk |-> FALSE, beginPutOk |-> FALSE]

\* GET /{provider}/callback
CallbackRoute ==
    \E req \in Requests :
      \E env \in CompleteEnvsFor(session, req) :
        \E r \in {completeUserAuth(session, req, env)} :
          \E putEmailOk \in {TRUE} \cup {r.err # ""} :
            \E h \in {callbackHandler(UserList, r, gothicRand, putEmailOk)} :
               /\ session' = h.sd
               /\ last' = Served("callback", req, session, h, <<>>)
               /\ UNCHANGED <<UserList, gothicRand, pc, tmp, nonceBytes>>

\* GET /{provider}/login
LoginRoute ==
    \E req \in Requests :
      \E env \in CompleteEnvsFor(session, req) :
        \E r \in {completeUserAuth(session, req, env)} :
          \E putEmailOk \in {TRUE} \cup {r.err # ""} :
            \E benv \in (IF r.err = "" THEN {AllBeginFail} ELSE BeginEnvs) :
              \E h \in {loginHandler(UserList, r, req, gothicRand, putEmailOk, benv)} :
                 /\ session' = h.sd
                 /\ gothicRand' = h.rand
                 /\ last' = Served("login", req, session, h, <<>>)
                 /\ UNCHANGED <<UserList, pc, tmp, nonceBytes>>

\* GET /{provider}/logout
LogoutRoute ==
    \E req \in PlainRequests, removeOk \in BOOLEAN :
      \E h \in {logoutHandler(session, req, gothicRand, removeOk)} :
         /\ session' = h.sd
         /\ last' = Served("logout", req, session, h, <<>>)
         /\ UNCHANGED <<UserList, gothicRand, pc, tmp, nonceBytes>>

\* a route wrapped in GuardAccess(types...)
GuardedRoute ==
    \E types \in AllowedLists :
      \E h \in {guardedHandler(UserList, session, gothicRand, types)} :
         /\ last' = Served("guarded", NoRequest, session, h, types)
         /\ UNCHANGED <<UserList, session, gothicRand, pc, tmp, nonceBytes>>

Next == CallbackRoute \/ LoginRoute \/ LogoutRoute \/ GuardedRoute

Spec == Init /\ [][Next]_vars

----------------------------------------------------------------------------
(* SpecPolicy: the access policy under every configured user list.  The    *)
(* gateway is entered as the callback and login routes enter it, with the  *)
(* email of the profile completeUserAuth returned.                         *)

InitPolicy == UserList \in UserLists /\ Started

GatewayCall ==
    \E email \in ProfileEmails, putEmailOk \in BOOLEAN :
      \E gw \in {gateway(UserList, session, email, putEmailOk)} :
         /\ session' = gw.sd
         /\ last' = Served("gateway", NoRequest, session,
                           Handled(gw.sd, gothicRand, gw.resp, gw.ops, "", "", email), <<>>)
         /\ UNCHANGED <<UserList, gothicRand, pc, tmp, nonceBytes>>

NextPolicy == GatewayCall \/ GuardedRoute

SpecPolicy == InitPolicy /\ [][NextPolicy]_vars

----------------------------------------------------------------------------
(* SpecAdapter: the session adapter over a store that may hold anything    *)
(* under a provider's key.  storeInSession is called with every payload;   *)
(* the logout route is the adapter's remove, the callback route its load.  *)
(* None of the three draws from the generator.                             *)

InitAdapter ==
    /\ UserList \in DeployedLists
    /\ Unserved
    /\ gothicRand = 0
    /\ session \in [values : [Providers -> StoredEntries], email : {""}]

\* storeInSession(key, value, req, res)
StoreCall ==
    \E key \in Providers, value \in Payloads, putOk \in BOOLEAN :
      \E st \in {storeInSession(session, key, value, putOk)} :
         /\ session' = st.sd
         /\ last' = Served("store", [provider |-> key, state |-> NoState], session,
                           [Handled(st.sd, gothicRand, Response(StatusUnwritten, NoURL, FALSE),
                                    <<"PutBytes">>, st.err, "", "")
                               EXCEPT !.payload = value], <<>>)
         /\ UNCHANGED <<UserList, gothicRand, pc, tmp, nonceBytes>>

NextAdapter == StoreCall \/ LogoutRoute \/ CallbackRoute

SpecAdapter == InitAdapter /\ [][NextAdapter]_vars

----------------------------------------------------------------------------
(* SpecRand: setState calls of requests served concurrently, one goroutine *)
(* per request.  A call of gothicRand.Int63 reads the generator state and  *)
(* then writes the advanced state back; rand.New(rand.NewSource(..)) takes *)
(* no lock.  A write that lands while another call is between its read and *)
(* its write is a data race and may leave any generator state.             *)

InsideInt63(c) == pc[c] = "write"

\* setState entered by a request without a state parameter
NonceStart(c) ==
    /\ pc[c] = "idle"
    /\ pc' = [pc EXCEPT ![c] = "read"]
    /\ nonceBytes' = [nonceBytes EXCEPT ![c] = <<>>]
    /\ UNCHANGED <<UserList, session, gothicRand, last, tmp>>

\* Int63, first half: load the generator state
Int63Read(c) ==
    /\ pc[c] = "read"
    /\ tmp' = [tmp EXCEPT ![c] = gothicRand]
    /\ pc' = [pc EXCEPT ![c] = "write"]
    /\ UNCHANGED <<UserList, session, gothicRand, last, nonceBytes>>

\* Int63, second half: store the advanced state; nonceBytes[i] = byte(.. % 256)
Int63Write(c) ==
    /\ pc[c] = "write"
    /\ IF \E d \in Callers \ {c} : InsideInt63(d)
       THEN gothicRand' \in 0..(RandPeriod - 1)
       ELSE gothicRand' = Int63Next(tmp[c])
    /\ nonceBytes' = [nonceBytes EXCEPT ![c] = Append(@, Int63Value(tmp[c]) % ByteRange)]
    /\ pc' = [pc EXCEPT ![c] = IF Len(nonceBytes[c]) + 1 = NonceLen THEN "done" ELSE "read"]
    /\ UNCHANGED <<UserList, session, last, tmp>>

\* setState returns the encoded nonce
NonceDone(c) ==
    /\ pc[c] = "done"
    /\ pc' = [pc EXCEPT ![c] = "idle"]
    /\ UNCHANGED <<UserList, session, gothicRand, last, tmp, nonceBytes>>

NextRand ==
    \E c \in Callers : NonceStart(c) \/ Int63Read(c) \/ Int63Write(c) \/ NonceDone(c)

SpecRand == Init /\ [][NextRand]_vars

----------------------------------------------------------------------------
(* Properties.  `last` is the request served last, last.before the session *)
(* data it found and session the data it left.                             *)

Has(ops, name) == \E i \in DOMAIN ops : ops[i] = name

\* the state embedded in the authorization URL of the blob stored under p
StoredState(sd, p) == UnmarshalSession(p, getFromSession(sd, p).value).sess.state

ReachedStateCheck ==
    /\ last.route \in {"callback", "login"}
    /\ Has(last.ops, "validateState")

PassedStateCheck ==
    /\ ReachedStateCheck
    /\ last.err \notin {"state token mismatch", "an AuthURL has not been set"}

RejectedBeforeFetch ==
    /\ last.err = "state token mismatch"
    /\ ~Has(last.ops, "FetchUser")
    /\ ~Has(last.ops, "Authorize")

\* C1 as stated: completeUserAuth gets past the state check only if the state
\* embedded in the stored authorization URL equals the request's state, and a
\* request whose state differs from the stored one is rejected with the
\* mismatch error before any profile fetch or token exchange.
C1_StateCheckOriginal ==
    ReachedStateCheck =>
        /\ PassedStateCheck => StoredState(last.before, last.provider) = last.state
        /\ StoredState(last.before, last.provider) # last.state => RejectedBeforeFetch

\* C1 amended: completeUserAuth gets past the state check exactly when the
\* state embedded in the stored authorization URL is empty or equals the
\* request's state; an echoed token passes, and a request whose state differs
\* from a non-empty stored one is rejected with the mismatch error before any
\* profile fetch or token exchange.
C1_StateCheck ==
    ReachedStateCheck =>
        /\ PassedStateCheck <=>
              \/ StoredState(last.before, last.provider) = NoState
              \/ StoredState(last.before, last.provider) = last.state
        /\ ~PassedStateCheck => RejectedBeforeFetch

\* a callback echoing the nonce of the stored blob got past the check
C1_Witness ==
    /\ last.route = "callback"
    /\ PassedStateCheck
    /\ last.state \in Nonces
    /\ StoredState(last.before, last.provider) = last.state

\* C2 as stated, for a logout that reported no error: once the logout route
\* was served for a session that was authenticated, checkAccess(req, Admin) is
\* false for that session.
C2_LogoutEndsAuth ==
    (/\ last.route = "logout"
     /\ last.err = ""
     /\ CheckAccess(UserList, last.before, <<AdminAccess>>))
        => ~CheckAccess(UserList, session, <<AdminAccess>>)

\* C3: a callback request whose completeUserAuth failed writes no status, no
\* Location and no body, does not enter the gateway, and writes no email: the
\* session is authenticated afterwards only if it was before.
C3_CallbackFailure ==
    (last.route = "callback" /\ last.err # "") =>
        /\ last.resp = Response(StatusUnwritten, NoURL, FALSE)
        /\ ~Has(last.ops, "gateway")
        /\ ~Has(last.ops, "PutString")
        /\ session.email \in {last.before.email, ""}
        /\ CheckAccess(UserList, session, <<AdminAccess>>)
              => CheckAccess(UserList, last.before, <<AdminAccess>>)

\* a callback with a tampered state was rejected
C3_Witness ==
    /\ last.route = "callback"
    /\ last.err = "state token mismatch"
    /\ last.before.email = ""

\* C4: the logout route answers 307 with Location set to the success page,
\* whether the removal succeeded, failed, or no provider was resolved.
C4_LogoutRedirects ==
    last.route = "logout" =>
        /\ last.resp.status = StatusTemporaryRedirect
        /\ last.resp.location = LocalURL(SuccessPage)

\* the logout route was served while the removal failed
C4_Witness ==
    /\ last.route = "logout"
    /\ last.err = "Could not delete user session "

\* the first record of the list with this email grants admin access
InAdminAllowList(list, email) ==
    /\ email # ""
    /\ \E i \in DOMAIN list :
          /\ list[i].Email = email
          /\ list[i].Access = AdminAccess
          /\ \A j \in 1..(i - 1) : list[j].Email # email

Unlisted(list, email) == \A i \in DOMAIN list : list[i].Email # email

GuardCalledThrough == last.resp.next

GuardDenied ==
    /\ last.resp.status = StatusTemporaryRedirect
    /\ last.resp.location = LocalURL(DeniedPage)

\* C5: the guard calls the downstream handler iff the caller's level is one
\* of the allowed ones and redirects (307) to the denied page otherwise,
\* never both and never neither; an email in the admin allow-list passes a
\* guard for Admin, an unlisted or absent email is redirected.
C5_Guard ==
    last.route = "guarded" =>
        /\ GuardCalledThrough <=>
              \E i \in DOMAIN last.allowed :
                  last.allowed[i] = GetAccess(UserList, last.before)
        /\ GuardCalledThrough <=> ~GuardDenied
        /\ ~GuardCalledThrough => last.resp.status = StatusTemporaryRedirect
        /\ (last.allowed = <<AdminAccess>> /\ InAdminAllowList(UserList, last.before.email))
              => GuardCalledThrough
        /\ (/\ last.allowed = <<AdminAccess>>
            /\ (last.before.email = "" \/ Unlisted(UserList, last.before.email)))
              => GuardDenied

\* an admin session went through a guard for Admin
C5_Witness ==
    /\ last.route = "guarded"
    /\ last.allowed = <<AdminAccess>>
    /\ InAdminAllowList(UserList, last.before.email)
    /\ GuardCalledThrough

\* levelFor of the specification: None for the empty email, else the level of
\* the first record with exactly this email, else None
RECURSIVE LevelFor(_, _)
LevelFor(list, email) ==
    IF email = "" \/ list = <<>> THEN NoneAccess
    ELSE IF Head(list).Email = email THEN Head(list).Access
    ELSE LevelFor(Tail(list), email)

\* C6 as stated: both paths compute levelFor: GetAccess from the session
\* email, and the gateway from the profile email, which it denies (no email
\* written, redirect to the denied page) when levelFor is None.
C6_LevelFor ==
    /\ GetAccess(UserList, session) = LevelFor(UserList, session.email)
    /\ Has(last.ops, "gateway") =>
          /\ getAccessByEmail(UserList, last.email) = LevelFor(UserList, last.email)
          /\ LevelFor(UserList, last.email) = NoneAccess =>
                (~Has(last.ops, "PutString") /\ GuardDenied)

Elements(seq) == {seq[i] : i \in DOMAIN seq}

\* C7: checkAccess is membership of the session's level in the allowed
\* levels: exactly one of checkAccess(Admin) and checkAccess(None) is true,
\* the empty set is never satisfied, and a set is satisfied iff one of its
\* members is.
C7_CheckAccess ==
    /\ CheckAccess(UserList, session, <<AdminAccess>>)
          # CheckAccess(UserList, session, <<NoneAccess>>)
    /\ ~CheckAccess(UserList, session, <<>>)
    /\ \A types \in AllowedLists :
          CheckAccess(UserList, session, types) <=>
              \E level \in Elements(types) : CheckAccess(UserList, session, <<level>>)

\* a guard for None turned an admin session away
C7_Witness ==
    /\ last.route = "guarded"
    /\ last.allowed = <<NoneAccess>>
    /\ CheckAccess(UserList, session, <<AdminAccess>>)
    /\ ~GuardCalledThrough

LoginWithoutBlob ==
    /\ last.route = "login"
    /\ last.provider \in Providers
    /\ last.before.values[last.provider] = NoBytes

\* the state the login request asked for: its own, else a generated nonce
CarriesRequestedState(url) ==
    IF last.state # NoState THEN url.state = last.state ELSE url.state \in Nonces

SilentCompletion ==
    (last.route = "login" /\ last.err = "") =>
        /\ Has(last.ops, "gateway")
        /\ last.resp.status = StatusTemporaryRedirect
        /\ last.resp.location \in {LocalURL(SuccessPage), LocalURL(DeniedPage)}
        /\ ~Has(last.ops, "BeginAuth")

\* C8 as stated: a login request that finds no provider blob is answered with
\* a redirect to the provider's authorization URL carrying the state (its own
\* or a fresh nonce) and leaves the blob stored; a successful silent
\* completion enters the gateway, redirects and begins no flow.
C8_LoginOriginal ==
    /\ LoginWithoutBlob =>
          /\ last.resp.status = StatusTemporaryRedirect
          /\ last.resp.location.host = last.provider
          /\ CarriesRequestedState(last.resp.location)
          /\ session.values[last.provider] # NoBytes
    /\ SilentCompletion

\* the nonce drawn from the generator, which the draw left in its present state
FreshNonce(token) ==
    \E g \in 0..(RandPeriod - 1) :
        /\ RandAfter(g, NonceLen) = gothicRand
        /\ token = EncodeToString(NonceBytes(g))

\* C8 amended: when getAuthURL succeeds, such a login request is answered 307
\* with the provider's authorization URL, which carries the state (the
\* request's own, else a fresh nonce) if the provider has a state parameter,
\* and the blob of that URL is stored without a token; when getAuthURL fails
\* (for an absent or unregistered provider too) the answer is 400 and no blob
\* is stored.  Silent completion as stated.
C8_Login ==
    /\ (/\ last.route = "login"
        /\ SessionGetBytes(last.before, last.provider) = NoBytes) =>
          IF last.berr = ""
          THEN /\ last.provider \in Providers
               /\ last.resp.status = StatusTemporaryRedirect
               /\ last.resp.location.host = last.provider
               /\ IF EmbedsState(last.provider)
                  THEN /\ CarriesRequestedState(last.resp.location)
                       /\ last.state = NoState => FreshNonce(last.resp.location.state)
                  ELSE last.resp.location.state = NoState
               /\ session.values[last.provider] # NoBytes
               /\ StoredState(session, last.provider) = last.resp.location.state
               /\ ~UnmarshalSession(last.provider,
                                    getFromSession(session, last.provider).value).sess.token
          ELSE /\ last.resp.status = StatusBadRequest
               /\ last.resp.body
               /\ SessionGetBytes(session, last.provider) = NoBytes
    /\ SilentCompletion

\* a login request without a state parameter was sent to the provider with a
\* generated nonce
C8_Witness ==
    /\ LoginWithoutBlob
    /\ last.berr = ""
    /\ last.state = NoState
    /\ last.resp.location.state \in Nonces

BeganAuth ==
    /\ last.route = "login"
    /\ Has(last.ops, "BeginAuth")
    /\ last.berr = ""

\* a successful beginAuth leaves exactly the blob of the URL it redirects to
Replaces ==
    BeganAuth =>
        session.values[last.provider] =
            Compress(Marshal([provider |-> last.provider, hasURL |-> TRUE,
                              state |-> last.resp.location.state, token |-> FALSE]))

\* C9 as stated: a beginAuth replaces the blob stored for the provider, and a
\* callback gets past the state check only with the state of the blob stored
\* last for the provider.
C9_OneFlowOriginal ==
    /\ Replaces
    /\ (last.route = "callback" /\ PassedStateCheck) =>
          /\ last.before.values[last.provider] # NoBytes
          /\ last.state = StoredState(last.before, last.provider)

\* C9 amended: ... a callback gets past the state check only with the state
\* of the blob stored last for the provider, or when the authorization URL of
\* that blob carries no state.
C9_OneFlow ==
    /\ Replaces
    /\ (last.route = "callback" /\ PassedStateCheck) =>
          /\ last.before.values[last.provider] # NoBytes
          /\ \/ last.state = StoredState(last.before, last.provider)
             \/ StoredState(last.before, last.provider) = NoState

\* a second login flow replaced the blob of a first one
C9_Witness ==
    /\ BeganAuth
    /\ last.before.values[last.provider] # NoBytes
    /\ StoredState(last.before, last.provider) # NoState
    /\ StoredState(last.before, last.provider) # StoredState(session, last.provider)

\* C10 as stated: no two concurrently served setState calls are inside the
\* shared generator at the same time.
C10_GeneratorSerialized ==
    \A c, d \in Callers : (c # d) => ~(InsideInt63(c) /\ InsideInt63(d))

FlowError ==
    /\ last.route \in {"callback", "login", "logout"}
    /\ (last.err # "" \/ last.berr # "")

\* C11 as stated: every flow error raised in one of the three route handlers,
\* a failure of beginAuth on the login route included, ends the request with
\* no response body written.
C11_FlowErrorsOriginal == FlowError => ~last.resp.body

\* C11 amended: a failed callback writes nothing at all; a failed logout is
\* swallowed and answered with the bodiless redirect to the success page; on
\* the login route a failure of completeUserAuth begins a fresh flow, whose
\* failure is answered 400 with the error as body and whose success is the
\* redirect of http.Redirect to the provider.
C11_FlowErrors ==
    FlowError =>
        /\ last.route = "callback" => last.resp = Response(StatusUnwritten, NoURL, FALSE)
        /\ last.route = "logout" => last.resp = redirect(LocalURL(SuccessPage))
        /\ last.route = "login" =>
              IF last.berr # ""
              THEN last.resp = Response(StatusBadRequest, NoURL, TRUE)
              ELSE /\ last.resp.status = StatusTemporaryRedirect
                   /\ last.resp.location.host = last.provider
                   /\ last.resp.body

\* the provider rejected BeginAuth on the login route
C11_Witness ==
    /\ last.route = "login"
    /\ last.provider \in Providers
    /\ last.berr = "provider: begin auth failed"
    /\ last.resp.status = StatusBadRequest

NoSessionError == "could not find a matching session for this request"

OtherEntriesKept ==
    /\ \A q \in Providers \ {last.provider} : session.values[q] = last.before.values[q]
    /\ session.email = last.before.email

\* C12: after a store of a payload under a provider name that reported no
\* error, the load under that name returns exactly the payload; a store (failed
\* or not) and a remove leave the entry of every other provider name as it
\* was, a failed store leaves every entry as it was; after a remove the load
\* reports the no-session error.
C12_RoundTrip ==
    /\ last.route = "store" =>
          /\ OtherEntriesKept
          /\ IF last.err = ""
             THEN getFromSession(session, last.provider) = [value |-> last.payload, err |-> ""]
             ELSE session = last.before
    /\ (last.route = "logout" /\ last.provider \in Providers) =>
          /\ OtherEntriesKept
          /\ last.err = "" => getFromSession(session, last.provider) =
                                 [value |-> <<>>, err |-> NoSessionError]

\* a payload was stored over another entry while the other provider's key
\* held a stream of its own
C12_Witness ==
    /\ last.route = "store"
    /\ last.err = ""
    /\ Len(last.payload) = MaxPayload
    /\ last.before.values[last.provider] \notin {NoBytes, session.values[last.provider]}
    /\ \E q \in Providers \ {last.provider} :
          getFromSession(session, q).err = "" /\ getFromSession(session, q).value # last.payload

RanCompleteUserAuth == last.route \in {"callback", "login"}

FirstIndex(ops, name) ==
    CHOOSE i \in DOMAIN ops : ops[i] = name /\ \A j \in 1..(i - 1) : ops[j] # name

\* C13 as stated, for calls with a provider name: the stored entry of the
\* provider is cleared first, before the provider is resolved and before the
\* prior blob is loaded, unmarshalled and validated.
C13_ClearedFirstOriginal ==
    (RanCompleteUserAuth /\ last.provider # "") =>
        /\ Has(last.ops, "Remove")
        /\ \A i \in DOMAIN last.ops :
              last.ops[i] \in {"GetProvider", "GetBytes", "UnmarshalSession", "validateState"}
                 => FirstIndex(last.ops, "Remove") < i

\* C13 amended: on every call with a provider name, the provider is resolved
\* and the prior blob is loaded, unmarshalled and validated before the entry
\* is cleared: the removal is the last step of the call, so a blob that
\* decompresses is never reported missing, and after a removal without error
\* the callback leaves no entry.  Without a provider name nothing is removed.
C13_ClearedLast ==
    RanCompleteUserAuth =>
        IF last.provider = ""
        THEN ~Has(last.ops, "Remove") /\ session = last.before
        ELSE /\ Has(last.ops, "Remove")
             /\ last.ops[1] = "GetProvider"
             /\ \A i \in DOMAIN last.ops :
                   last.ops[i] \in {"GetBytes", "UnmarshalSession", "validateState"}
                      => i < FirstIndex(last.ops, "Remove")
             /\ (last.provider \in Providers /\ getSessionValue(last.before, last.provider).err = "")
                   => /\ last.err # NoSessionError
                      /\ Has(last.ops, "UnmarshalSession")
             /\ (last.route = "callback" /\ last.lerr = "")
                   => SessionGetBytes(session, last.provider) = NoBytes

\* a callback validated the stored blob, completed, and left no entry
C13_Witness ==
    /\ last.route = "callback"
    /\ last.err = ""
    /\ Has(last.ops, "validateState")
    /\ last.before.values[last.provider] # NoBytes
    /\ session.values[last.provider] = NoBytes

\* the calls completeUserAuth made before its deferred logout
CompletionOps ==
    IF Has(last.ops, "Remove")
    THEN SubSeq(last.ops, 1, FirstIndex(last.ops, "Remove") - 1)
    ELSE <<>>

Count(ops, name) == Cardinality({i \in DOMAIN ops : ops[i] = name})

UpToFirstFetch == <<"GetProvider", "GetBytes", "UnmarshalSession", "validateState", "FetchUser">>

\* the blob the call found, with the token of the exchange
RefreshedBlob ==
    Compress(Marshal([UnmarshalSession(last.provider,
                                       getFromSession(last.before, last.provider).value).sess
                         EXCEPT !.token = TRUE]))

\* C14: one completeUserAuth call fetches the profile at most twice and
\* exchanges the token at most once; the exchange follows a first fetch, the
\* second fetch follows an exchange and a re-persist that both succeeded (the
\* blob with the token is what the store then holds); a failed exchange, a
\* failed re-persist and a failed second fetch each end the call with that
\* error and no further call to the provider, and the callback does not go on.
C14_BoundedRetry ==
    RanCompleteUserAuth =>
        /\ Count(CompletionOps, "FetchUser") <= 2
        /\ Count(CompletionOps, "Authorize") <= 1
        /\ Count(CompletionOps, "PutBytes") <= 1
        /\ Has(CompletionOps, "Authorize") =>
              SubSeq(CompletionOps, 1, 6) = UpToFirstFetch \o <<"Authorize">>
        /\ Count(CompletionOps, "FetchUser") = 2 =>
              /\ CompletionOps = UpToFirstFetch \o <<"Authorize", "PutBytes", "FetchUser">>
              /\ last.err \in {"", "cannot get user information"}
              /\ (last.route = "callback" /\ last.lerr # "")
                    => session.values[last.provider] = RefreshedBlob
        /\ last.err = "token exchange failed" =>
              CompletionOps = UpToFirstFetch \o <<"Authorize">>
        /\ last.err = "session: put failed" =>
              /\ CompletionOps = UpToFirstFetch \o <<"Authorize", "PutBytes">>
              /\ (last.route = "callback" /\ last.lerr # "")
                    => session.values[last.provider] = last.before.values[last.provider]
        /\ last.err = "cannot get user information" =>
              CompletionOps = UpToFirstFetch \o <<"Authorize", "PutBytes", "FetchUser">>
        /\ (last.route = "callback" /\ last.err # "") => ~Has(last.ops, "gateway")

\* a callback completed through the exchange and the second fetch
C14_Witness ==
    /\ last.route = "callback"
    /\ last.err = ""
    /\ Count(CompletionOps, "FetchUser") = 2
    /\ Has(last.ops, "gateway")

CompletedByRefresh ==
    /\ RanCompleteUserAuth
    /\ last.err = ""
    /\ Has(CompletionOps, "Authorize")

\* C15 as stated: after a completeUserAuth call that succeeded through the
\* refresh path the store holds the refreshed blob under the provider's name
\* (only a logout request removes it).
C15_LifetimeOriginal ==
    CompletedByRefresh => session.values[last.provider] = RefreshedBlob

\* C15 amended: the refreshed blob replaces the stored one on the refresh
\* path and is removed again by the logout the call runs on return: after
\* such a call the store holds no entry under the provider's name, or the
\* refreshed blob when that removal failed.  An entry disappears only through
\* a removal under its own name that reported no error, in a completeUserAuth
\* call or in the logout route.
C15_Lifetime ==
    /\ CompletedByRefresh =>
          IF last.lerr = ""
          THEN session.values[last.provider] = NoBytes
          ELSE session.values[last.provider] = RefreshedBlob
    /\ \A q \in Providers :
          (last.before.values[q] # NoBytes /\ session.values[q] = NoBytes) =>
              /\ q = last.provider
              /\ Has(last.ops, "Remove")
              /\ IF last.route = "logout" THEN last.err = ""
                 ELSE RanCompleteUserAuth /\ last.lerr = ""

\* a callback completed through the refresh path and left no entry
C15_Witness ==
    /\ last.route = "callback"
    /\ CompletedByRefresh
    /\ last.lerr = ""
    /\ last.before.values[last.provider] # NoBytes
    /\ session.values[last.provider] = NoBytes

\* completeUserAuth failed with a provider name, its deferred removal worked
FailedCompletion ==
    /\ RanCompleteUserAuth
    /\ last.err # ""
    /\ last.provider # ""
    /\ last.lerr = ""

\* C16: after a completeUserAuth call that returned an error (state mismatch,
\* missing blob, failed exchange or fetch, unknown provider) while the provider
\* name was present and the removal succeeded, the store holds no entry under
\* that name, whatever it held before: the callback route and a login route
\* whose beginAuth failed leave none, and a login route whose beginAuth
\* succeeded leaves only the blob of the new flow.
C16_FailureLeavesNoSession ==
    FailedCompletion =>
        /\ (last.route = "callback" \/ last.berr # "") =>
              /\ SessionGetBytes(session, last.provider) = NoBytes
              /\ getFromSession(session, last.provider).err = NoSessionError
        /\ (last.route = "login" /\ last.berr = "") =>
              ~UnmarshalSession(last.provider,
                                getFromSession(session, last.provider).value).sess.token
        /\ last.provider = "email" => session.email = ""

\* a callback with a state other than the stored one cost the session its blob
C16_Witness ==
    /\ last.route = "callback"
    /\ FailedCompletion
    /\ last.err = "state token mismatch"
    /\ last.before.values[last.provider] # NoBytes
    /\ session.values[last.provider] = NoBytes

\* the store has no entry for the provider, or one that does not decompress
NoUsableEntry(sd, p) == Decompress(SessionGetBytes(sd, p)).err # ""

\* C17: when the store has no entry for a registered provider, or the entry
\* does not decompress, the load is the no-session error, completeUserAuth
\* returns that error after the load, without a call of UnmarshalSession,
\* validateState, FetchUser or Authorize, and the callback route returns as
\* for any other error, nothing written.
C17_MissingOrCorrupt ==
    (/\ last.route = "callback"
     /\ last.provider \in Providers
     /\ NoUsableEntry(last.before, last.provider)) =>
        /\ getFromSession(last.before, last.provider) = [value |-> <<>>, err |-> NoSessionError]
        /\ last.err = NoSessionError
        /\ CompletionOps = <<"GetProvider", "GetBytes">>
        /\ last.resp = Response(StatusUnwritten, NoURL, FALSE)
        /\ session.email = last.before.email

\* a callback found bytes under the provider's key that are no gzip stream
C17_Witness ==
    /\ last.route = "callback"
    /\ last.provider \in Providers
    /\ last.before.values[last.provider] \in CorruptEntries
    /\ last.err = NoSessionError

\* C18 as stated, with the level of the specification's levelFor: the gateway
\* writes the session's email only for a profile email whose level is not
\* None, and answers a profile email whose level is None with the redirect to
\* the denied page, the session's email left as it was; so a session that
\* holds an email has a level other than None, and checkAccess(req, None) is
\* true exactly for the sessions that hold none.
C18_GatewayInvariant ==
    /\ Has(last.ops, "gateway") =>
          /\ last.resp = redirect(LocalURL(SuccessPage))
                => LevelFor(UserList, last.email) # NoneAccess
          /\ LevelFor(UserList, last.email) = NoneAccess =>
                /\ last.resp = redirect(LocalURL(DeniedPage))
                /\ session.email = last.before.email
    /\ session.email # "" => LevelFor(UserList, session.email) # NoneAccess
    /\ CheckAccess(UserList, session, <<NoneAccess>>) <=> session.email = ""

\* the login route went on to beginAuthHandler
RanBeginAuth == last.route = "login" /\ last.err # ""

\* the calls of getAuthURL: those after the deferred logout of completeUserAuth
BeginOps ==
    IF Has(last.ops, "Remove")
    THEN SubSeq(last.ops, FirstIndex(last.ops, "Remove") + 1, Len(last.ops))
    ELSE last.ops

\* the session data completeUserAuth handed on to beginAuthHandler
AfterCompletion ==
    IF last.lerr = "" THEN SessionRemove(last.before, last.provider)
    ELSE IF Count(CompletionOps, "FetchUser") = 2
         THEN [last.before EXCEPT !.values[last.provider] = RefreshedBlob]
         ELSE last.before

RedirectsToProvider ==
    /\ last.resp.status = StatusTemporaryRedirect
    /\ last.resp.location.host \in Providers

\* C19: a beginAuth that fails because the provider name is absent, the
\* provider is not registered, the provider rejects BeginAuth or there is no
\* authorization URL writes nothing to the session store and is not answered
\* with a redirect to a provider; PutBytes is called only after GetAuthURL
\* returned a URL, and the redirect is issued only after PutBytes stored the
\* blob of that URL.
C19_BeginAuthFrame ==
    RanBeginAuth =>
        /\ last.berr \in {"you must select a provider", "no provider for this name exists",
                          "provider: begin auth failed", "an AuthURL has not been set"} =>
              /\ ~Has(BeginOps, "PutBytes")
              /\ session = AfterCompletion
              /\ ~RedirectsToProvider
        /\ Has(BeginOps, "PutBytes") =>
              /\ BeginOps = <<"GetProvider", "BeginAuth", "GetAuthURL", "PutBytes">>
              /\ last.berr \in {"", "session: put failed"}
        /\ last.berr = "session: put failed" =>
              (session = AfterCompletion /\ ~RedirectsToProvider)
        /\ RedirectsToProvider =>
              /\ last.berr = ""
              /\ Has(BeginOps, "PutBytes")
              /\ last.resp.location.host = last.provider
              /\ session = SessionPutBytes(AfterCompletion, last.provider,
                                           Compress(Marshal(BeginAuth(last.provider,
                                                                      last.resp.location.state,
                                                                      TRUE))))

\* the provider produced no authorization URL while the session held a blob
\* of an earlier flow whose removal failed
C19_Witness ==
    /\ RanBeginAuth
    /\ last.berr = "an AuthURL has not been set"
    /\ last.lerr # ""
    /\ session.values[last.provider] # NoBytes
    /\ session = last.before

====
